---- MODULE Spec2Model ----
(***************************************************************************)
(* laravel-dusk-mcp (src/index.ts): an MCP server that selects a Laravel   *)
(* project, builds and runs `php artisan dusk` commands in it, parses the  *)
(* PHPUnit output and serves screenshots and logs as resources.            *)
(*                                                                         *)
(* Four specifications share this module:                                  *)
(*   Spec          the request handlers, interleaved at their awaits       *)
(*   SpecValidate  isLaravelProject over a family of project directories   *)
(*   SpecBuild     the run_dusk_test command construction                  *)
(*   SpecParse     parseTestResults over generated runner output           *)
(***************************************************************************)
EXTENDS Integers, Sequences, FiniteSets, Bags, TLC

(***************************************************************************)
(* Values.  JavaScript strings that are only compared or concatenated are  *)
(* TLA+ strings; texts that are searched (paths, runner output) are        *)
(* sequences.                                                              *)
(***************************************************************************)

(***************************************************************************)
(* Paths: a sequence of segments, absolute when it starts with "/".        *)
(***************************************************************************)
IsAbsolute(p) == Len(p) > 0 /\ p[1] = "/"

RECURSIVE NormalizeSegs(_, _)
\* path.normalize on the segments after the root: "." is dropped and ".."
\* removes the segment before it (at the root it is dropped).
NormalizeSegs(segs, acc) ==
  IF segs = <<>> THEN acc
  ELSE LET h == Head(segs) IN
       IF h = "." THEN NormalizeSegs(Tail(segs), acc)
       ELSE IF h = ".."
         THEN NormalizeSegs(Tail(segs),
                IF acc = <<>> THEN acc ELSE SubSeq(acc, 1, Len(acc) - 1))
         ELSE NormalizeSegs(Tail(segs), Append(acc, h))

\* process.cwd()
Cwd == <<"/", "srv">>

\* path.resolve(p): an absolute path is normalised, a relative one is taken
\* from the working directory.
PathResolve(p) ==
  LET full == IF IsAbsolute(p) THEN p ELSE Cwd \o p
  IN  <<"/">> \o NormalizeSegs(Tail(full), <<>>)

\* path.join(dir, name)
PathJoin(dir, name) == <<"/">> \o NormalizeSegs(Tail(dir) \o <<name>>, <<>>)

(***************************************************************************)
(* A project directory as isLaravelProject sees it.                        *)
(*   composer: "missing" | "unreadable" (exists, readFile fails)           *)
(*           | "garbage" (JSON.parse throws) | "null" | "scalar"           *)
(*           | "object"                                                    *)
(*   require, requireDev (of an object): what the section holds            *)
(*     "absent" | "null" | "scalar" | "empty" | "other" (an object without *)
(*     the key) | "laravel" (the key with a string value)                  *)
(*     | "laravelNull" (the key with the JSON value null)                  *)
(*   artisan: the artisan file exists                                      *)
(*   dusk:    vendor/laravel/dusk exists                                   *)
(*   env:     .env.dusk.local exists                                       *)
(*   tests:   tests/Browser exists                                         *)
(*   shots, logs: the listing of tests/Browser/screenshots and of          *)
(*            storage/logs/dusk, [ok, entries]; ok is FALSE when readdir   *)
(*            rejects                                                      *)
(*   isDir:   stat resolves and isDirectory() is true                      *)
(***************************************************************************)
Sections == {"absent", "null", "scalar", "empty", "other", "laravel", "laravelNull"}

NoListing == [ok |-> FALSE, entries |-> <<>>]

Listing(entries) == [ok |-> TRUE, entries |-> entries]

NoDir == [composer |-> "missing", require |-> "absent", requireDev |-> "absent",
          artisan |-> FALSE, dusk |-> FALSE, env |-> FALSE, tests |-> FALSE,
          shots |-> NoListing, logs |-> NoListing, isDir |-> FALSE]

\* fs.access(path): TRUE when it resolves, FALSE when it rejects.
AccessComposer(d) == d.composer # "missing"

AccessArtisan(d) == d.artisan

\* fs.readFile(composerJsonPath, 'utf-8') rejects
ReadFileThrows(d) == d.composer \in {"missing", "unreadable"}

\* JSON.parse(composerContent) throws
JSONParseThrows(d) == d.composer = "garbage"

\* composer.require on the parsed value throws a TypeError when it is null
MemberAccessThrows(d) == d.composer = "null"

\* section?.['laravel/framework']: "undefined" unless the section is an object
\* holding the key; a key holding null reads as null, which is not undefined.
Lookup(d, sec) ==
  IF d.composer # "object" THEN "undefined"
  ELSE CASE sec = "laravel"     -> "string"
         [] sec = "laravelNull" -> "null"
         [] OTHER               -> "undefined"

\* the body of the try block: [threw, value]
IsLaravelTry(d) ==
  IF ~AccessComposer(d) THEN [threw |-> TRUE, value |-> FALSE]
  ELSE IF ~AccessArtisan(d) THEN [threw |-> TRUE, value |-> FALSE]
  ELSE IF ReadFileThrows(d) THEN [threw |-> TRUE, value |-> FALSE]
  ELSE IF JSONParseThrows(d) THEN [threw |-> TRUE, value |-> FALSE]
  ELSE IF MemberAccessThrows(d) THEN [threw |-> TRUE, value |-> FALSE]
  ELSE [threw |-> FALSE,
        value |-> \/ Lookup(d, d.require) # "undefined"
                  \/ Lookup(d, d.requireDev) # "undefined"]

IsLaravelNoDevMutant(d) ==
  LET r == IsLaravelTry(d)
  IN  IF r.threw THEN [threw |-> FALSE, value |-> FALSE]
      ELSE [threw |-> FALSE, value |-> Lookup(d, d.require) # "undefined"]

\* isLaravelProject: catch { return false }
IsLaravelOutcome(d) ==
  LET r == IsLaravelTry(d)
  IN  IF r.threw THEN [threw |-> FALSE, value |-> FALSE] ELSE r

isLaravelProject(d) == IsLaravelOutcome(d).value

(***************************************************************************)
(* run_dusk_test: the command string.  A tool argument is [given, v]; an   *)
(* absent argument reads as undefined.  The command is kept as the         *)
(* sequence of the fragments `command +=` appended, the string being their *)
(* concatenation.                                                          *)
(***************************************************************************)
NoStr == [given |-> FALSE, v |-> ""]

Str(s) == [given |-> TRUE, v |-> s]

NoBool == [given |-> FALSE, v |-> FALSE]

Bool(b) == [given |-> TRUE, v |-> b]

\* if (args?.x) on a string: undefined and "" are falsy
TruthyStr(a) == a.given /\ a.v # ""

\* if (args?.x) on a boolean: undefined and false are falsy
TruthyBool(a) == a.given /\ a.v

BaseCommand == "php artisan dusk"

TestPart(a) == " " \o a.v

FilterPart(a) == " --filter=\"" \o a.v \o "\""

GroupPart(a) == " --group=" \o a.v

HeadedPart == " --headed"

AppendIf(cond, command, part) == IF cond THEN Append(command, part) ELSE command

GroupBeforeFilterMutant(args) ==
  LET c0 == <<BaseCommand>>
      c1 == AppendIf(TruthyStr(args.test), c0, TestPart(args.test))
      c2 == AppendIf(TruthyStr(args.group), c1, GroupPart(args.group))
      c3 == AppendIf(TruthyStr(args.filter), c2, FilterPart(args.filter))
  IN  AppendIf(~TruthyBool(args.headless), c3, HeadedPart)

\* the four `if (...) command += ...` statements in the order of the source
BuildDuskCommand(args) ==
  LET c0 == <<BaseCommand>>
      c1 == AppendIf(TruthyStr(args.test), c0, TestPart(args.test))
      c2 == AppendIf(TruthyStr(args.filter), c1, FilterPart(args.filter))
      c3 == AppendIf(TruthyStr(args.group), c2, GroupPart(args.group))
  IN  AppendIf(~TruthyBool(args.headless), c3, HeadedPart)

\* install_chrome_driver: version given, else --detect
BuildDriverCommand(args) ==
  IF TruthyStr(args.version)
    THEN <<"php artisan dusk:chrome-driver", " " \o args.version.v>>
    ELSE <<"php artisan dusk:chrome-driver", " --detect">>

(***************************************************************************)
(* parseTestResults.  The runner output is a sequence of characters, the   *)
(* literals the patterns look for ("Tests:", "FAILURES!", ...) being one   *)
(* character each.                                                         *)
(***************************************************************************)
DigitChars == {"0", "1", "2", "3", "4", "5", "6", "7", "8", "9"}

\* \s
SpaceChars == {" ", "\n", "\t"}

DigitVal(c) ==
  CASE c = "0" -> 0 [] c = "1" -> 1 [] c = "2" -> 2 [] c = "3" -> 3
    [] c = "4" -> 4 [] c = "5" -> 5 [] c = "6" -> 6 [] c = "7" -> 7
    [] c = "8" -> 8 [] c = "9" -> 9

RECURSIVE ParseIntAcc(_, _)
ParseIntAcc(digits, acc) ==
  IF digits = <<>> THEN acc
  ELSE ParseIntAcc(Tail(digits), acc * 10 + DigitVal(Head(digits)))

\* parseInt on a string of decimal digits
ParseInt(digits) == ParseIntAcc(digits, 0)

\* the character at i, "" past either end
At(s, i) == IF i \in 1..Len(s) THEN s[i] ELSE ""

RECURSIVE RunEnd(_, _, _)
\* the first position from i on whose character is not in class (greedy c+)
RunEnd(s, i, class) ==
  IF i \in 1..Len(s) /\ s[i] \in class THEN RunEnd(s, i + 1, class) ELSE i

NoMatch == [ok |-> FALSE, total |-> <<>>, hasFailed |-> FALSE, failed |-> <<>>]

\* /Tests:\s+(\d+),\s+Assertions:\s+(\d+)(?:,\s+Failures:\s+(\d+))?/ at i
SummaryMatchAt(s, i) ==
  LET a == RunEnd(s, i + 1, SpaceChars)
      b == RunEnd(s, a, DigitChars)
      c == RunEnd(s, b + 1, SpaceChars)
      d == RunEnd(s, c + 1, SpaceChars)
      e == RunEnd(s, d, DigitChars)
      f == RunEnd(s, e + 1, SpaceChars)
      g == RunEnd(s, f + 1, SpaceChars)
      h == RunEnd(s, g, DigitChars)
  IN  IF /\ At(s, i) = "Tests:" /\ a > i + 1 /\ b > a
         /\ At(s, b) = "," /\ c > b + 1
         /\ At(s, c) = "Assertions:" /\ d > c + 1 /\ e > d
      THEN IF /\ At(s, e) = "," /\ f > e + 1
              /\ At(s, f) = "Failures:" /\ g > f + 1 /\ h > g
           THEN [ok |-> TRUE, total |-> SubSeq(s, a, b - 1),
                 hasFailed |-> TRUE, failed |-> SubSeq(s, g, h - 1)]
           ELSE [ok |-> TRUE, total |-> SubSeq(s, a, b - 1),
                 hasFailed |-> FALSE, failed |-> <<>>]
      ELSE NoMatch

SummaryMatchLooseMutant(s) ==
  LET hits == {i \in 1..Len(s) :
                 At(s, i) = "Tests:" /\ RunEnd(s, i + 1, SpaceChars) > i + 1
                 /\ At(s, RunEnd(s, i + 1, SpaceChars)) \in DigitChars}
  IN  IF hits = {} THEN NoMatch
      ELSE LET i == CHOOSE x \in hits : \A y \in hits : x <= y
               a == RunEnd(s, i + 1, SpaceChars)
           IN  [ok |-> TRUE, total |-> SubSeq(s, a, RunEnd(s, a, DigitChars) - 1),
                hasFailed |-> FALSE, failed |-> <<>>]

\* output.match(...): the leftmost match
SummaryMatch(s) ==
  LET hits == {i \in 1..Len(s) : SummaryMatchAt(s, i).ok}
  IN  IF hits = {} THEN NoMatch
      ELSE SummaryMatchAt(s, CHOOSE i \in hits : \A j \in hits : i <= j)

\* the character class `.` (without the s flag): anything but a line break
IsDot(c) == c # "" /\ c # "\n"

RECURSIVE DotRunEnd(_, _)
DotRunEnd(s, i) == IF IsDot(At(s, i)) THEN DotRunEnd(s, i + 1) ELSE i

\* /Time:\s+(.+)/ at i: \s+ takes the longest run of white space that still
\* leaves a character for (.+), which then runs to the end of the line.
DurationMatchAt(s, i) ==
  LET a == RunEnd(s, i + 1, SpaceChars)
      starts == {k \in (i + 2)..a : IsDot(At(s, k))}
  IN  IF At(s, i) = "Time:" /\ starts # {}
      THEN LET k == CHOOSE x \in starts : \A y \in starts : y <= x
           IN  [ok |-> TRUE, text |-> SubSeq(s, k, DotRunEnd(s, k) - 1)]
      ELSE [ok |-> FALSE, text |-> <<>>]

DurationMatch(s) ==
  LET hits == {i \in 1..Len(s) : DurationMatchAt(s, i).ok}
  IN  IF hits = {} THEN [ok |-> FALSE, text |-> <<>>]
      ELSE DurationMatchAt(s, CHOOSE i \in hits : \A j \in hits : i <= j)

\* /FAILURES!\n(.+?)\n\n/gs at i: the shortest non-empty text (line breaks
\* included) that a blank line follows.
FailureMatchAt(s, i) ==
  LET ends == {k \in (i + 3)..Len(s) : At(s, k) = "\n" /\ At(s, k + 1) = "\n"}
  IN  IF At(s, i) = "FAILURES!" /\ At(s, i + 1) = "\n" /\ ends # {}
      THEN LET k == CHOOSE x \in ends : \A y \in ends : x <= y
           IN  [ok |-> TRUE, section |-> SubSeq(s, i + 2, k - 1)]
      ELSE [ok |-> FALSE, section |-> <<>>]

FailureMatch(s) ==
  LET hits == {i \in 1..Len(s) : FailureMatchAt(s, i).ok}
  IN  IF hits = {} THEN [ok |-> FALSE, section |-> <<>>]
      ELSE FailureMatchAt(s, CHOOSE i \in hits : \A j \in hits : i <= j)

RECURSIVE SplitOrdinals(_, _, _)
\* failureSection.split(/\d+\)/): the pieces between the ordinal markers
SplitOrdinals(s, i, cur) ==
  IF i > Len(s) THEN <<cur>>
  ELSE LET e == RunEnd(s, i, DigitChars)
       IN  IF e > i /\ At(s, e) = ")"
           THEN <<cur>> \o SplitOrdinals(s, e + 1, <<>>)
           ELSE SplitOrdinals(s, i + 1, Append(cur, s[i]))

RECURSIVE SplitLines(_, _, _)
\* text.split('\n')
SplitLines(s, i, cur) ==
  IF i > Len(s) THEN <<cur>>
  ELSE IF s[i] = "\n" THEN <<cur>> \o SplitLines(s, i + 1, <<>>)
  ELSE SplitLines(s, i + 1, Append(cur, s[i]))

RECURSIVE TrimStart(_)
TrimStart(s) ==
  IF s # <<>> /\ Head(s) \in SpaceChars THEN TrimStart(Tail(s)) ELSE s

RECURSIVE TrimEnd(_)
TrimEnd(s) ==
  IF s # <<>> /\ s[Len(s)] \in SpaceChars
    THEN TrimEnd(SubSeq(s, 1, Len(s) - 1)) ELSE s

\* text.trim()
Trim(s) == TrimEnd(TrimStart(s))

RECURSIVE JoinLines(_)
\* lines.join('\n')
JoinLines(lines) ==
  IF lines = <<>> THEN <<>>
  ELSE IF Len(lines) = 1 THEN lines[1]
  ELSE lines[1] \o <<"\n">> \o JoinLines(Tail(lines))

\* one FailureRecord from a non-blank piece
FailureRecord(piece) ==
  LET lines == SplitLines(Trim(piece), 1, <<>>)
  IN  [test |-> Trim(lines[1]), message |-> Trim(JoinLines(Tail(lines)))]

RECURSIVE FailureRecords(_)
\* individualFailures.forEach: blank pieces are dropped
FailureRecords(pieces) ==
  IF pieces = <<>> THEN <<>>
  ELSE IF Trim(Head(pieces)) = <<>> THEN FailureRecords(Tail(pieces))
  ELSE <<FailureRecord(Head(pieces))>> \o FailureRecords(Tail(pieces))

\* the summary object as initialised
EmptySummary ==
  [total |-> 0, passed |-> 0, failed |-> 0, skipped |-> 0,
   duration |-> <<>>, failures |-> <<>>]

SummaryCountsNoFailedMutant(m) ==
  LET total == ParseInt(m.total)
  IN  [total |-> total, failed |-> 0, passed |-> total]

\* if (summaryMatch) { total, failed, passed }
SummaryCounts(m) ==
  LET total  == ParseInt(m.total)
      failed == ParseInt(IF m.hasFailed THEN m.failed ELSE <<"0">>)
  IN  [total |-> total, failed |-> failed, passed |-> total - failed]

ParseFailures(output) ==
  LET fm == FailureMatch(output)
  IN  IF fm.ok THEN FailureRecords(SplitOrdinals(fm.section, 1, <<>>)) ELSE <<>>

parseTestResults(output) ==
  LET sm  == SummaryMatch(output)
      cnt == IF sm.ok THEN SummaryCounts(sm)
             ELSE [total |-> 0, failed |-> 0, passed |-> 0]
      dm  == DurationMatch(output)
  IN  [total |-> cnt.total, passed |-> cnt.passed, failed |-> cnt.failed,
       skipped |-> 0,
       duration |-> IF dm.ok THEN dm.text ELSE <<>>,
       failures |-> ParseFailures(output)]

(***************************************************************************)
(* The file system the server runs on: fsys maps the directories that      *)
(* exist to what they hold, ls maps a search root to its listing.          *)
(***************************************************************************)
DirAt(fsys, p) == IF p \in DOMAIN fsys THEN fsys[p] ELSE NoDir

Home == <<"/", "home", "u">>

\* searchPaths, in the order of the source, for the working directory cwd
SearchPathsFrom(cwd) ==
  << cwd,
     PathJoin(Home, "Sites"), PathJoin(Home, "projects"),
     PathJoin(Home, "workspace"), PathJoin(Home, "dev"), PathJoin(Home, "code"),
     <<"/", "var", "www">>, <<"/", "var", "www", "html">> >>

\* searchPaths of the server, whose working directory is Cwd
SearchPaths == SearchPathsFrom(Cwd)

\* fs.readdir(searchPath)
Readdir(ls, root) == IF root \in DOMAIN ls THEN ls[root] ELSE NoListing

RECURSIVE ScanEntries(_, _, _)
\* the inner loop: an entry is pushed when stat says directory and
\* isLaravelProject accepts it
ScanEntries(fsys, root, entries) ==
  IF entries = <<>> THEN <<>>
  ELSE LET fullPath == PathJoin(root, Head(entries))
           d == DirAt(fsys, fullPath)
           rest == ScanEntries(fsys, root, Tail(entries))
       IN  IF d.isDir /\ isLaravelProject(d) THEN <<fullPath>> \o rest ELSE rest

RECURSIVE ScanRoots(_, _, _)
\* the outer loop: a root whose readdir rejects contributes nothing
ScanRoots(fsys, ls, roots) ==
  IF roots = <<>> THEN <<>>
  ELSE LET r == Readdir(ls, Head(roots))
           rest == ScanRoots(fsys, ls, Tail(roots))
       IN  IF r.ok THEN ScanEntries(fsys, Head(roots), r.entries) \o rest ELSE rest

DedupeNoneMutant(seq, acc) == acc \o seq

RECURSIVE Dedupe(_, _)
\* [...new Set(projects)]: first occurrences, in order
Dedupe(seq, acc) ==
  IF seq = <<>> THEN acc
  ELSE IF \E i \in 1..Len(acc) : acc[i] = Head(seq)
    THEN Dedupe(Tail(seq), acc)
    ELSE Dedupe(Tail(seq), Append(acc, Head(seq)))

\* findLaravelProjects run in the working directory cwd
findLaravelProjectsFrom(cwd, fsys, listings) ==
  Dedupe(ScanRoots(fsys, listings, SearchPathsFrom(cwd)), <<>>)

findLaravelProjects(fsys, ls) == findLaravelProjectsFrom(Cwd, fsys, ls)

(***************************************************************************)
(* State.                                                                  *)
(*   phase       "off" | "boot" (before initialize) | "serving"            *)
(*   laravelPath config.laravelPath, the active project                    *)
(*   fs, ls      the file system                                           *)
(*   calls       the requests in flight, a bag of call records: a handler  *)
(*               never sees which request it serves                        *)
(*   vdir, vres  isLaravelProject's argument and result (SpecValidate)     *)
(*   bargs, command  run_dusk_test's arguments and command (SpecBuild)     *)
(*   gen, output, summary  the generated runner output, what it was made   *)
(*               from, and parseTestResults' result (SpecParse)            *)
(*   wd, found   process.cwd() and the results of the findLaravelProjects  *)
(*               calls made so far (SpecFind)                              *)
(***************************************************************************)
VARIABLES phase, laravelPath, fs, ls, calls,
          vdir, vres, bargs, command, gen, output, summary, wd, found

serverVars == <<phase, laravelPath, fs, ls, calls>>

validateVars == <<vdir, vres>>

buildVars == <<bargs, command>>

parseVars == <<gen, output, summary>>

findVars == <<wd, found>>

vars == <<phase, laravelPath, fs, ls, calls,
          vdir, vres, bargs, command, gen, output, summary, wd, found>>

\* requests in flight at once
MaxCalls == 2

InFlight == BagToSet(calls)

\* An answer is sent as soon as its handler ends: a handler that ends finds
\* no earlier answer still waiting to leave.
AnswerMayLeave(c) == c.pc = "done" => \A x \in InFlight : x.pc # "done"

\* a request arrives and its handler runs to its first await (or to its end)
Admit(c) ==
  /\ phase = "serving"
  /\ BagCardinality(calls) < MaxCalls
  /\ AnswerMayLeave(c)
  /\ calls' = calls (+) SetToBag({c})

\* a handler resumes from an await and runs to its next one (or to its end)
Resume(c, c2) ==
  /\ AnswerMayLeave(c2)
  /\ calls' = (calls (-) SetToBag({c})) (+) SetToBag({c2})

ProjA == <<"/", "srv", "a">>

ProjB == <<"/", "srv", "b">>

PngFile == <<"a", ".png">>

TxtFile == <<"n", ".txt">>

LogFile == <<"d", ".log">>

\* a Laravel project with Dusk, one screenshot and one log
GoodDir ==
  [composer |-> "object", require |-> "laravel", requireDev |-> "other",
   artisan |-> TRUE, dusk |-> TRUE, env |-> FALSE, tests |-> TRUE,
   shots |-> Listing(<<TxtFile, PngFile>>), logs |-> Listing(<<LogFile>>),
   isDir |-> TRUE]

\* the same directory without its artisan file
BrokenDir == [GoodDir EXCEPT !.artisan = FALSE, !.dusk = FALSE]

\* a directory that holds no project
PlainDir == [NoDir EXCEPT !.isDir = TRUE]

ServerDirs == {GoodDir, BrokenDir}

NoPath == [given |-> FALSE, v |-> <<>>]

Path(p) == [given |-> TRUE, v |-> p]

\* if (!projectPath): undefined and '' are falsy
TruthyPath(a) == a.given /\ a.v # <<>>

\* the path arguments set_laravel_project is called with
PathArgs ==
  { NoPath, Path(<<>>), Path(ProjA), Path(<<"b">>),
    Path(<<"/", "srv", "a", "..", "x">>) }

NoResp == [how |-> "none", tag |-> "", failed |-> FALSE, info |-> <<>>]

\* a response returned to the protocol layer: { content: [{ type: 'text' }] }
TextResp(tag, failed, info) ==
  [how |-> "returned", tag |-> tag, failed |-> failed, info |-> info]

\* an Error thrown out of the handler
Thrown(tag, info) ==
  [how |-> "thrown", tag |-> tag, failed |-> TRUE, info |-> info]

NoErr == [kind |-> "none", path |-> <<>>]

\* a call as it arrives
NewCall ==
  [pc |-> "new", tool |-> "", path |-> NoPath, dir |-> <<>>, cwd |-> <<>>,
   atStart |-> <<>>,
   valid |-> "none", cmd |-> <<>>, spawns |-> 0, spawnDir |-> <<>>,
   rcErr |-> NoErr, files |-> <<>>, deleted |-> 0, checks |-> <<>>,
   resp |-> NoResp]

Tools ==
  { "set_laravel_project", "list_laravel_projects", "run_dusk_test",
    "list_dusk_tests", "check_dusk_environment", "clear_dusk_screenshots",
    "install_chrome_driver", "start_dev_server" }

\* the handler ends with resp; its locals are gone
Done(c, resp) ==
  [c EXCEPT !.pc = "done", !.resp = resp, !.cmd = <<>>, !.files = <<>>,
            !.checks = <<>>, !.deleted = 0]

ServerOff ==
  /\ phase = "off"
  /\ laravelPath = Cwd
  /\ fs = (Cwd :> PlainDir)
  /\ ls = (Cwd :> NoListing)
  /\ calls = EmptyBag

ValidateOff ==
  /\ vdir = NoDir
  /\ vres = [done |-> FALSE, threw |-> FALSE, value |-> FALSE]

BuildOff ==
  /\ bargs = [test |-> NoStr, filter |-> NoStr, group |-> NoStr, headless |-> NoBool]
  /\ command = <<>>

ParseOff ==
  /\ gen = <<>>
  /\ output = <<>>
  /\ summary = [done |-> FALSE, value |-> EmptySummary]

FindOff ==
  /\ wd = Cwd
  /\ found = <<>>

\* config.laravelPath as constructed: LARAVEL_PATH, else the working directory
StartPaths == {Cwd, ProjB}

Init ==
  /\ phase = "boot"
  /\ laravelPath \in StartPaths
  /\ \E da \in ServerDirs, db \in ServerDirs :
       fs = (Cwd :> PlainDir) @@ (ProjA :> da) @@ (ProjB :> db)
  /\ ls = (Cwd :> Listing(<<"a", "b", "c">>))
  /\ calls = EmptyBag
  /\ ValidateOff /\ BuildOff /\ ParseOff /\ FindOff

\* initialize(): keep a valid default, else take the first project found
InitialPath(lp, fsys, listing) ==
  IF ~isLaravelProject(DirAt(fsys, lp))
    THEN LET projects == findLaravelProjects(fsys, listing)
         IN  IF Len(projects) > 0 THEN projects[1] ELSE lp
    ELSE lp

Initialize ==
  /\ phase = "boot"
  /\ phase' = "serving"
  /\ laravelPath' = InitialPath(laravelPath, fs, ls)
  /\ UNCHANGED <<fs, ls, calls, validateVars, buildVars, parseVars, findVars>>

\* the environment replaces what a project directory holds
FsChange(p, d) ==
  /\ phase = "serving"
  /\ fs[p] # d
  /\ fs' = [fs EXCEPT ![p] = d]
  /\ UNCHANGED <<phase, laravelPath, ls, calls, validateVars, buildVars, parseVars, findVars>>

\* what every handler step leaves alone
Frame == UNCHANGED <<phase, ls, validateVars, buildVars, parseVars, findVars>>

(***************************************************************************)
(* set_laravel_project                                                     *)
(***************************************************************************)
\* up to the first await: the missing path throws, else the path is resolved
SetProjectStart(p) ==
  IF ~TruthyPath(p)
    THEN Done([NewCall EXCEPT !.tool = "set_laravel_project", !.path = p],
              Thrown("Project path is required", <<>>))
    ELSE [NewCall EXCEPT !.tool = "set_laravel_project", !.path = p,
                         !.pc = "slp_validate", !.dir = PathResolve(p.v)]

CallSetLaravelProject(p) ==
  /\ Admit(SetProjectStart(p))
  /\ UNCHANGED <<laravelPath, fs>>
  /\ Frame

SetProjectAlwaysAcceptMutant(c, ok) ==
  [c EXCEPT !.pc = "slp_access", !.valid = IF ok THEN "yes" ELSE "no"]

\* if (!await isLaravelProject(absolutePath)) return the error text
SetProjectCheck(c, ok) ==
  IF ~ok
    THEN Done([c EXCEPT !.valid = "no"],
              TextResp("Error: not a valid Laravel project", TRUE, <<c.dir>>))
    ELSE [c EXCEPT !.pc = "slp_access", !.valid = "yes"]

SetProjectValidated(c) ==
  /\ c.pc = "slp_validate"
  /\ Resume(c, SetProjectCheck(c, isLaravelProject(DirAt(fs, c.dir))))
  /\ UNCHANGED <<laravelPath, fs>>
  /\ Frame

\* the Dusk probe resumes; config.laravelPath = absolutePath
SetProjectAccessed(c) ==
  /\ c.pc = "slp_access"
  /\ laravelPath' = c.dir
  /\ Resume(c, Done(c, TextResp("Laravel project set to", FALSE,
                                <<c.dir, DirAt(fs, c.dir).dusk>>)))
  /\ UNCHANGED fs
  /\ Frame

(***************************************************************************)
(* runCommand and the three handlers that use it                           *)
(***************************************************************************)
\* const cwd = projectPath || config.laravelPath
RunCommandCwd(projectPath, lp) == IF TruthyPath(projectPath) THEN projectPath.v ELSE lp

\* runCommand up to its first await; atStart notes the active project the
\* call saw when it began
RunCommandStart(c, cmd, projectPath, lp) ==
  [c EXCEPT !.pc = "rc_validate", !.cmd = cmd, !.atStart = lp,
            !.cwd = RunCommandCwd(projectPath, lp), !.dir = <<>>,
            !.valid = "none", !.rcErr = NoErr]

SpawnCwdActiveMutant(c, lp) == lp

\* execAsync(command, { cwd })
SpawnCwd(c, lp) == c.cwd

RunDuskCatchRethrowMutant(c, err) ==
  Done([c EXCEPT !.rcErr = err], Thrown("Error running Dusk tests", <<err.kind, err.path>>))

\* run_dusk_test: catch (error) { return the error text }
RunDuskCatch(c, err) ==
  Done([c EXCEPT !.rcErr = err],
       TextResp("Error running Dusk tests", TRUE, <<err.kind, err.path>>))

\* install_chrome_driver: catch (error) { return the error text }
InstallCatch(c, err) ==
  Done([c EXCEPT !.rcErr = err],
       TextResp("Error installing ChromeDriver", TRUE, <<err.kind, err.path>>))

\* check_dusk_environment: the ChromeDriver check is pushed and the handler
\* goes on to the tests directory under the active project of that moment
CheckAfterRun(c, ok, err, lp) ==
  [c EXCEPT !.pc = "cde_tests", !.rcErr = err, !.checks = Append(@, ok),
            !.cmd = <<>>, !.dir = lp]

\* runCommand threw err: what the calling handler makes of it
RunCommandFailed(c, err, lp) ==
  CASE c.tool = "run_dusk_test"         -> RunDuskCatch(c, err)
    [] c.tool = "install_chrome_driver" -> InstallCatch(c, err)
    [] OTHER                            -> CheckAfterRun(c, FALSE, err, lp)

\* the Dusk result text, with the counts parseTestResults found
DuskResults(c, stdout) ==
  LET results == parseTestResults(stdout)
  IN  Done(c, TextResp("Dusk Test Results", FALSE,
                       <<results.total, results.passed, results.failed,
                         Len(results.failures)>>))

\* runCommand returned { stdout, stderr }
RunCommandReturned(c, stdout, lp) ==
  CASE c.tool = "run_dusk_test"         -> DuskResults(c, stdout)
    [] c.tool = "install_chrome_driver" ->
         Done(c, TextResp("ChromeDriver Installation", FALSE, <<>>))
    [] OTHER                            -> CheckAfterRun(c, TRUE, NoErr, lp)

\* the arguments run_dusk_test is called with here
ServerDuskArgs ==
  { [test |-> NoStr, filter |-> NoStr, group |-> NoStr, headless |-> NoBool],
    [test |-> Str("LoginTest"), filter |-> NoStr, group |-> NoStr,
     headless |-> Bool(TRUE)] }

\* what the runner prints here
ServerOutputs ==
  { <<"Tests:", " ", "2", ",", " ", "Assertions:", " ", "5", "\n">>,
    <<"w", "\n">> }

CallRunDuskTest(args) ==
  /\ Admit(RunCommandStart([NewCall EXCEPT !.tool = "run_dusk_test"],
                           BuildDuskCommand(args), NoPath, laravelPath))
  /\ UNCHANGED <<laravelPath, fs>>
  /\ Frame

CallInstallChromeDriver(version) ==
  /\ Admit(RunCommandStart([NewCall EXCEPT !.tool = "install_chrome_driver"],
                           BuildDriverCommand([version |-> version]), NoPath,
                           laravelPath))
  /\ UNCHANGED <<laravelPath, fs>>
  /\ Frame

\* isLaravelProject(cwd) resumes: the invalid directory throws before any
\* spawn, the valid one is handed to execAsync
RunCommandCheck(c, ok, lp) ==
  IF ~ok
    THEN RunCommandFailed([c EXCEPT !.valid = "no"],
                          [kind |-> "Not a valid Laravel project", path |-> c.cwd], lp)
    ELSE [c EXCEPT !.pc = "rc_exec", !.valid = "yes",
                   !.spawns = @ + 1, !.spawnDir = SpawnCwd(c, lp)]

RunCommandValidated(c) ==
  /\ c.pc = "rc_validate"
  /\ Resume(c, RunCommandCheck(c, isLaravelProject(DirAt(fs, c.cwd)), laravelPath))
  /\ UNCHANGED <<laravelPath, fs>>
  /\ Frame

\* the child exits: non-zero is "Command failed", zero returns its output
RunCommandExited(c, exitOk, stdout) ==
  /\ c.pc = "rc_exec"
  /\ Resume(c, IF exitOk
                 THEN RunCommandReturned(c, stdout, laravelPath)
                 ELSE RunCommandFailed(c, [kind |-> "Command failed", path |-> <<>>],
                                       laravelPath))
  /\ UNCHANGED <<laravelPath, fs>>
  /\ Frame

(***************************************************************************)
(* check_dusk_environment                                                  *)
(***************************************************************************)
CallCheckDuskEnvironment ==
  /\ Admit([NewCall EXCEPT !.tool = "check_dusk_environment", !.pc = "cde_dusk",
                           !.dir = laravelPath])
  /\ UNCHANGED <<laravelPath, fs>>
  /\ Frame

\* the Dusk probe resumes; the .env.dusk.local probe starts
CheckDusk(c) ==
  /\ c.pc = "cde_dusk"
  /\ Resume(c, [c EXCEPT !.pc = "cde_env", !.dir = laravelPath,
                         !.checks = <<DirAt(fs, c.dir).dusk>>])
  /\ UNCHANGED <<laravelPath, fs>>
  /\ Frame

\* the .env.dusk.local probe resumes; runCommand starts
CheckEnv(c) ==
  /\ c.pc = "cde_env"
  /\ Resume(c, RunCommandStart([c EXCEPT !.checks = Append(@, DirAt(fs, c.dir).env)],
                               <<"php artisan dusk:chrome-driver --detect">>,
                               NoPath, laravelPath))
  /\ UNCHANGED <<laravelPath, fs>>
  /\ Frame

\* the tests/Browser probe resumes; the four checks are returned
CheckTests(c) ==
  /\ c.pc = "cde_tests"
  /\ Resume(c, Done(c, TextResp("Dusk Environment Check", c.rcErr.kind # "none",
                                Append(c.checks, DirAt(fs, c.dir).tests))))
  /\ UNCHANGED <<laravelPath, fs>>
  /\ Frame

(***************************************************************************)
(* list_laravel_projects, list_dusk_tests, start_dev_server, unknown tools *)
(***************************************************************************)
CallListLaravelProjects ==
  /\ Admit([NewCall EXCEPT !.tool = "list_laravel_projects", !.pc = "llp_find"])
  /\ UNCHANGED <<laravelPath, fs>>
  /\ Frame

\* findLaravelProjects() resumes: nothing found is answered at once, else the
\* Dusk probes of the projects start
ListProjectsFound(c) ==
  /\ c.pc = "llp_find"
  /\ LET projects == findLaravelProjects(fs, ls) IN
     Resume(c, IF Len(projects) = 0
                 THEN Done(c, TextResp("No Laravel projects found", FALSE, <<>>))
                 ELSE [c EXCEPT !.pc = "llp_access", !.files = projects])
  /\ UNCHANGED <<laravelPath, fs>>
  /\ Frame

\* Promise.all resumes: each project with its Dusk mark, then the current one
ListProjectsAccessed(c) ==
  /\ c.pc = "llp_access"
  /\ Resume(c, Done(c, TextResp("Found Laravel projects", FALSE,
                  << [i \in 1..Len(c.files) |->
                        <<c.files[i], DirAt(fs, c.files[i]).dusk>>],
                     laravelPath >>)))
  /\ UNCHANGED <<laravelPath, fs>>
  /\ Frame

\* list_dusk_tests runs without an await; globFails is glob.sync throwing
CallListDuskTests(globFails) ==
  /\ Admit(Done([NewCall EXCEPT !.tool = "list_dusk_tests", !.dir = laravelPath],
                IF globFails
                  THEN TextResp("Error listing tests", TRUE, <<>>)
                  ELSE TextResp("Available Dusk Tests", FALSE,
                                <<DirAt(fs, laravelPath).tests>>)))
  /\ UNCHANGED <<laravelPath, fs>>
  /\ Frame

\* port || 8000
DefaultPort == 8000

NoPort == [given |-> FALSE, v |-> 0]

Port(n) == [given |-> TRUE, v |-> n]

PortOf(a) == IF a.given /\ a.v # 0 THEN a.v ELSE DefaultPort

\* start_dev_server: exec without runCommand, so without validation;
\* execThrows is exec throwing before it returns
CallStartDevServer(port, execThrows) ==
  /\ Admit(IF execThrows
             THEN Done([NewCall EXCEPT !.tool = "start_dev_server"],
                       TextResp("Error starting server", TRUE, <<>>))
             ELSE Done([NewCall EXCEPT !.tool = "start_dev_server",
                                       !.spawns = @ + 1, !.spawnDir = laravelPath],
                       TextResp("Laravel development server starting", FALSE,
                                <<PortOf(port)>>)))
  /\ UNCHANGED <<laravelPath, fs>>
  /\ Frame

UnknownToolTextMutant(name) ==
  Done([NewCall EXCEPT !.tool = name], TextResp("Unknown tool", TRUE, <<name>>))

\* default: throw new Error(`Unknown tool: ${name}`)
UnknownTool(name) ==
  Done([NewCall EXCEPT !.tool = name], Thrown("Unknown tool", <<name>>))

CallUnknownTool(name) ==
  /\ name \notin Tools
  /\ Admit(UnknownTool(name))
  /\ UNCHANGED <<laravelPath, fs>>
  /\ Frame

(***************************************************************************)
(* clear_dusk_screenshots                                                  *)
(***************************************************************************)
EndsWith(file, ext) == file[2] = ext

RECURSIVE SkipToPng(_)
\* the loop runs on without an await over the files that are not .png
SkipToPng(files) ==
  IF files = <<>> \/ EndsWith(Head(files), ".png") THEN files
  ELSE SkipToPng(Tail(files))

Has(listing, file) ==
  listing.ok /\ \E i \in 1..Len(listing.entries) : listing.entries[i] = file

RECURSIVE Without(_, _)
Without(entries, file) ==
  IF entries = <<>> THEN <<>>
  ELSE IF Head(entries) = file THEN Without(Tail(entries), file)
  ELSE <<Head(entries)>> \o Without(Tail(entries), file)

CallClearDuskScreenshots ==
  /\ Admit([NewCall EXCEPT !.tool = "clear_dusk_screenshots", !.pc = "cds_readdir",
                           !.dir = laravelPath])
  /\ UNCHANGED <<laravelPath, fs>>
  /\ Frame

\* what follows a resumed await of the loop: the next unlink, or the answer
ClearNext(c, files, deleted) ==
  IF SkipToPng(files) = <<>>
    THEN Done(c, TextResp("Cleared screenshots", FALSE, <<deleted>>))
    ELSE [c EXCEPT !.pc = "cds_unlink", !.files = SkipToPng(files),
                   !.deleted = deleted]

\* readdir resumes: a missing directory is the handler's error text
ClearListed(c) ==
  /\ c.pc = "cds_readdir"
  /\ LET l == DirAt(fs, c.dir).shots IN
     Resume(c, IF ~l.ok
                 THEN Done(c, TextResp("Error clearing screenshots", TRUE, <<>>))
                 ELSE ClearNext(c, l.entries, 0))
  /\ UNCHANGED <<laravelPath, fs>>
  /\ Frame

\* unlink resumes: a file that is gone by now is the handler's error text
ClearUnlinked(c) ==
  /\ c.pc = "cds_unlink"
  /\ LET file == Head(c.files)
         l == DirAt(fs, c.dir).shots
     IN  IF ~Has(l, file)
           THEN /\ Resume(c, Done(c, TextResp("Error clearing screenshots", TRUE, <<>>)))
                /\ UNCHANGED fs
           ELSE /\ fs' = [fs EXCEPT ![c.dir].shots.entries = Without(@, file)]
                /\ Resume(c, ClearNext(c, Tail(c.files), c.deleted + 1))
  /\ UNCHANGED laravelPath
  /\ Frame

(***************************************************************************)
(* Resources                                                               *)
(***************************************************************************)
RECURSIVE Descriptors(_, _, _, _, _)
\* files.forEach: one descriptor per file with the extension; from is the
\* project directory the listing was read under
Descriptors(entries, ext, scheme, mime, from) ==
  IF entries = <<>> THEN <<>>
  ELSE LET rest == Descriptors(Tail(entries), ext, scheme, mime, from)
       IN  IF EndsWith(Head(entries), ext)
             THEN <<[uri |-> <<scheme, Head(entries)>>, mimeType |-> mime,
                     from |-> from]>> \o rest
             ELSE rest

\* fs.readdir(dir).catch(() => [])
EntriesOrNone(listing) == IF listing.ok THEN listing.entries ELSE <<>>

ListResources ==
  /\ Admit([NewCall EXCEPT !.tool = "resources/list", !.pc = "lr_shots",
                           !.dir = laravelPath])
  /\ UNCHANGED <<laravelPath, fs>>
  /\ Frame

\* the screenshots listing resumes; the logs directory is joined to the
\* active project of that moment and listed
ListShots(c) ==
  /\ c.pc = "lr_shots"
  /\ Resume(c, [c EXCEPT
                  !.pc = "lr_logs", !.dir = laravelPath,
                  !.files = Descriptors(EntriesOrNone(DirAt(fs, c.dir).shots),
                                        ".png", "screenshot://", "image/png", c.dir)])
  /\ UNCHANGED <<laravelPath, fs>>
  /\ Frame

ListLogs(c) ==
  /\ c.pc = "lr_logs"
  /\ Resume(c, Done(c, [how |-> "returned", tag |-> "resources", failed |-> FALSE,
                        info |-> c.files \o
                          Descriptors(EntriesOrNone(DirAt(fs, c.dir).logs),
                                      ".log", "log://", "text/plain", c.dir)]))
  /\ UNCHANGED <<laravelPath, fs>>
  /\ Frame

\* the URIs a resource is read by
ReadUris ==
  { <<"screenshot://", PngFile>>, <<"screenshot://", LogFile>>,
    <<"log://", LogFile>>, <<"log://", <<"gone", ".log">> >>,
    <<"file://", PngFile>> }

\* the scheme dispatch, up to the readFile
ReadResource(uri) ==
  /\ Admit(IF uri[1] \in {"screenshot://", "log://"}
             THEN [NewCall EXCEPT !.tool = "resources/read", !.pc = "rr_read",
                                  !.dir = laravelPath, !.files = <<uri>>]
             ELSE Done([NewCall EXCEPT !.tool = "resources/read"],
                       Thrown("Unknown resource type", <<uri>>)))
  /\ UNCHANGED <<laravelPath, fs>>
  /\ Frame

\* config.screenshotsPath, config.logsPath
ScreenshotsPath == "tests/Browser/screenshots"

LogsPath == "storage/logs/dusk"

ReadContentsEmptyMutant(uri, dir, d) ==
  LET shot == uri[1] = "screenshot://"
  IN  [how |-> "returned", tag |-> "contents", failed |-> FALSE,
       info |-> IF Has(IF shot THEN d.shots ELSE d.logs, uri[2])
                  THEN <<[uri |-> uri,
                          mimeType |-> IF shot THEN "image/png" ELSE "text/plain",
                          encoding |-> IF shot THEN "base64" ELSE "utf-8",
                          from |-> dir,
                          under |-> IF shot THEN ScreenshotsPath ELSE LogsPath]>>
                  ELSE <<>>]

\* what the handler ends with once readFile settles: the one content item
\* of the file read under dir, or readFile's rejection thrown on
ReadContents(uri, dir, d) ==
  LET shot == uri[1] = "screenshot://"
  IN  IF Has(IF shot THEN d.shots ELSE d.logs, uri[2])
        THEN [how |-> "returned", tag |-> "contents", failed |-> FALSE,
              info |-> <<[uri |-> uri,
                          mimeType |-> IF shot THEN "image/png" ELSE "text/plain",
                          encoding |-> IF shot THEN "base64" ELSE "utf-8",
                          from |-> dir,
                          under |-> IF shot THEN ScreenshotsPath ELSE LogsPath]>>]
        ELSE Thrown("readFile rejected", <<uri>>)

\* readFile resumes
ReadDone(c) ==
  /\ c.pc = "rr_read"
  /\ Resume(c, Done(c, ReadContents(c.files[1], c.dir, DirAt(fs, c.dir))))
  /\ UNCHANGED <<laravelPath, fs>>
  /\ Frame

\* the answer leaves the server
Retire(c) ==
  /\ c.pc = "done"
  /\ calls' = calls (-) SetToBag({c})
  /\ UNCHANGED <<phase, laravelPath, fs, ls, validateVars, buildVars, parseVars, findVars>>

UnknownNames == {"bogus_tool"}

Ports == {NoPort, Port(0), Port(9000)}

Versions == {NoStr, Str("120")}

Next ==
  \/ Initialize
  \/ \E p \in {ProjA, ProjB}, d \in ServerDirs : FsChange(p, d)
  \/ \E p \in PathArgs : CallSetLaravelProject(p)
  \/ CallListLaravelProjects
  \/ \E args \in ServerDuskArgs : CallRunDuskTest(args)
  \/ \E v \in Versions : CallInstallChromeDriver(v)
  \/ CallCheckDuskEnvironment
  \/ \E globFails \in BOOLEAN : CallListDuskTests(globFails)
  \/ CallClearDuskScreenshots
  \/ \E port \in Ports, execThrows \in BOOLEAN : CallStartDevServer(port, execThrows)
  \/ \E name \in UnknownNames : CallUnknownTool(name)
  \/ ListResources
  \/ \E uri \in ReadUris : ReadResource(uri)
  \/ \E c \in InFlight : SetProjectValidated(c)
  \/ \E c \in InFlight : SetProjectAccessed(c)
  \/ \E c \in InFlight : ListProjectsFound(c)
  \/ \E c \in InFlight : ListProjectsAccessed(c)
  \/ \E c \in InFlight : RunCommandValidated(c)
  \/ \E c \in InFlight, exitOk \in BOOLEAN, stdout \in ServerOutputs :
       RunCommandExited(c, exitOk, stdout)
  \/ \E c \in InFlight : CheckDusk(c)
  \/ \E c \in InFlight : CheckEnv(c)
  \/ \E c \in InFlight : CheckTests(c)
  \/ \E c \in InFlight : ClearListed(c)
  \/ \E c \in InFlight : ClearUnlinked(c)
  \/ \E c \in InFlight : ListShots(c)
  \/ \E c \in InFlight : ListLogs(c)
  \/ \E c \in InFlight : ReadDone(c)
  \/ \E c \in InFlight : Retire(c)

Spec == Init /\ [][Next]_vars

(***************************************************************************)
(* SpecValidate: isLaravelProject applied to every kind of directory.      *)
(***************************************************************************)
ValidateDirs ==
  { [NoDir EXCEPT !.composer = k, !.artisan = a, !.isDir = TRUE] :
      k \in {"missing", "unreadable", "garbage", "null", "scalar"}, a \in BOOLEAN }
  \cup
  { [NoDir EXCEPT !.composer = "object", !.require = r, !.requireDev = rd,
                  !.artisan = a, !.isDir = TRUE] :
      r \in Sections, rd \in Sections, a \in BOOLEAN }

InitValidate ==
  /\ ServerOff /\ BuildOff /\ ParseOff /\ FindOff
  /\ vdir \in ValidateDirs
  /\ vres = [done |-> FALSE, threw |-> FALSE, value |-> FALSE]

Validate ==
  /\ ~vres.done
  /\ vres' = [done |-> TRUE, threw |-> IsLaravelOutcome(vdir).threw,
              value |-> IsLaravelOutcome(vdir).value]
  /\ UNCHANGED <<vdir, serverVars, buildVars, parseVars, findVars>>

NextValidate == Validate

SpecValidate == InitValidate /\ [][NextValidate]_vars

(***************************************************************************)
(* SpecBuild: the run_dusk_test command for every shape of arguments.      *)
(***************************************************************************)
BuildArgs ==
  [ test     : {NoStr, Str(""), Str("tests/Browser/LoginTest.php")},
    filter   : {NoStr, Str(""), Str("Login")},
    group    : {NoStr, Str(""), Str("smoke")},
    headless : {NoBool, Bool(TRUE), Bool(FALSE)} ]

InitBuild ==
  /\ ServerOff /\ ValidateOff /\ ParseOff /\ FindOff
  /\ bargs \in BuildArgs
  /\ command = <<>>

Build ==
  /\ command = <<>>
  /\ command' = BuildDuskCommand(bargs)
  /\ UNCHANGED <<bargs, serverVars, validateVars, parseVars, findVars>>

NextBuild == Build

SpecBuild == InitBuild /\ [][NextBuild]_vars

(***************************************************************************)
(* SpecParse: parseTestResults over runner output put together from known  *)
(* parts, so that what the text says is known apart from the parser.       *)
(*   pre     a line before everything else                                 *)
(*   marker  a "FAILURES!" line                                            *)
(*   sum     the summary line: its kind and the counts printed in it       *)
(*   items   the lines after it                                            *)
(*   blank   a closing blank line                                          *)
(***************************************************************************)
\* the largest count printed in a summary line
MaxCount == 11

Counts == 0..MaxCount

DigitChar(n) ==
  CASE n = 0 -> "0" [] n = 1 -> "1" [] n = 2 -> "2" [] n = 3 -> "3"
    [] n = 4 -> "4" [] n = 5 -> "5" [] n = 6 -> "6" [] n = 7 -> "7"
    [] n = 8 -> "8" [] n = 9 -> "9"

RECURSIVE ToDigits(_)
\* a count as the runner prints it
ToDigits(n) ==
  IF n < 10 THEN <<DigitChar(n)>>
  ELSE ToDigits(n \div 10) \o <<DigitChar(n % 10)>>

PreKinds == {"none", "noise", "nearTests", "nearFail", "time"}

ItemKinds == {"none", "one", "two", "text"}

GenSums ==
  {[kind |-> "none", total |-> 0, failed |-> 0]}
  \cup {[kind |-> "plain", total |-> t, failed |-> 0] : t \in Counts}
  \cup {[kind |-> k, total |-> t, failed |-> f] :
          k \in {"failures", "wide"}, t \in Counts, f \in Counts}
  \cup {[kind |-> "errors", total |-> t, failed |-> 2] : t \in Counts}

Gens ==
  [pre : PreKinds, marker : BOOLEAN, sum : GenSums, items : ItemKinds,
   blank : BOOLEAN]

PreText(kind) ==
  CASE kind = "none"      -> <<>>
    [] kind = "noise"     -> <<"w", "\n">>
    [] kind = "nearTests" -> <<"Tests:", " ", "3", "\n">>
    [] kind = "nearFail"  ->
         <<"Tests:", " ", "3", ",", " ", "Failures:", " ", "1", "\n">>
    [] kind = "time"      -> <<"Time:", " ", "0", "0", ":", "0", "1", "\n">>

SumText(sum) ==
  CASE sum.kind = "none"  -> <<>>
    [] sum.kind = "plain" ->
         <<"Tests:", " ">> \o ToDigits(sum.total)
           \o <<",", " ", "Assertions:", " ", "5", "\n">>
    [] sum.kind = "failures" ->
         <<"Tests:", " ">> \o ToDigits(sum.total)
           \o <<",", " ", "Assertions:", " ", "5", ",", " ", "Failures:", " ">>
           \o ToDigits(sum.failed) \o <<".", "\n">>
    [] sum.kind = "wide" ->
         <<"Tests:", "\t", " ">> \o ToDigits(sum.total)
           \o <<",", "\n", "Assertions:", " ", " ", "5", ",", " ", "Failures:", "\t">>
           \o ToDigits(sum.failed) \o <<".", "\n">>
    [] sum.kind = "errors" ->
         <<"Tests:", " ">> \o ToDigits(sum.total)
           \o <<",", " ", "Assertions:", " ", "5", ",", " ", "Errors:", " ", "1",
                ",", " ", "Failures:", " ">>
           \o ToDigits(sum.failed) \o <<".", "\n">>

ItemsText(kind) ==
  CASE kind = "none" -> <<>>
    [] kind = "one"  -> <<"1", ")", " ", "t", "A", "\n", "m", "s", "g", "\n">>
    [] kind = "two"  -> <<"1", ")", " ", "t", "A", "\n", "2", ")", " ", "t", "B", "\n">>
    [] kind = "text" -> <<"w", "\n">>

Render(g) ==
  PreText(g.pre)
    \o (IF g.marker THEN <<"FAILURES!", "\n">> ELSE <<>>)
    \o SumText(g.sum) \o ItemsText(g.items)
    \o (IF g.blank THEN <<"\n">> ELSE <<>>)

InitParse ==
  /\ ServerOff /\ ValidateOff /\ BuildOff /\ FindOff
  /\ gen \in Gens
  /\ output = Render(gen)
  /\ summary = [done |-> FALSE, value |-> EmptySummary]

Parse ==
  /\ ~summary.done
  /\ summary' = [done |-> TRUE, value |-> parseTestResults(output)]
  /\ UNCHANGED <<gen, output, serverVars, validateVars, buildVars, findVars>>

NextParse == Parse

SpecParse == InitParse /\ [][NextParse]_vars

(***************************************************************************)
(* SpecFind: findLaravelProjects run twice over every small file system,   *)
(* from a working directory that is or is not one of the other roots.      *)
(***************************************************************************)
\* calls of findLaravelProjects made against one file system
MaxFinds == 2

ProjectsRoot == PathJoin(Home, "projects")

WwwRoot == <<"/", "var", "www">>

\* process.cwd(): a directory of its own, or one that is a root already
FindCwds == {Cwd, ProjectsRoot, WwwRoot}

\* the roots that may exist; the other five never do
FindRoots == {Cwd, ProjectsRoot, WwwRoot}

FindListings == {NoListing, Listing(<<"a", "b">>), Listing(<<"b", "a">>)}

\* what an entry of a root is: a project, a directory that is none, or
\* something stat rejects
FindKinds == {GoodDir, BrokenDir, NoDir}

FindDirs == {PathJoin(r, e) : r \in FindRoots, e \in {"a", "b"}}

InitFind ==
  /\ phase = "off"
  /\ laravelPath = Cwd
  /\ calls = EmptyBag
  /\ fs \in [FindDirs -> FindKinds]
  /\ ls \in [FindRoots -> FindListings]
  /\ wd \in FindCwds
  /\ found = <<>>
  /\ ValidateOff /\ BuildOff /\ ParseOff

Find ==
  /\ Len(found) < MaxFinds
  /\ found' = Append(found, findLaravelProjectsFrom(wd, fs, ls))
  /\ UNCHANGED <<wd, serverVars, validateVars, buildVars, parseVars>>

NextFind == Find

SpecFind == InitFind /\ [][NextFind]_vars

(***************************************************************************)
(* Properties.                                                             *)
(***************************************************************************)
\* the step adds a copy of the call record c
Gained(c) == CopiesIn(c, calls') > CopiesIn(c, calls)

\* the handlers that go through runCommand
RunCommandTools == {"run_dusk_test", "install_chrome_driver", "check_dusk_environment"}

\* C1, in every state: a runCommand call has spawned at most once; a call
\* that spawned did so after isLaravelProject returned true in that call, in
\* the working directory it validated, which is the active project read when
\* the call began; a call whose validation returned false has spawned
\* nothing and fails with "Not a valid Laravel project" naming that directory.
RunCommandSpawnsValidated ==
  \A c \in InFlight :
    c.tool \in RunCommandTools =>
      /\ c.spawns <= 1
      /\ c.spawns = 1 =>
           /\ c.valid = "yes"
           /\ c.spawnDir = c.cwd
           /\ c.cwd = c.atStart
      /\ c.valid = "no" =>
           /\ c.spawns = 0
           /\ c.rcErr = [kind |-> "Not a valid Laravel project", path |-> c.cwd]
           /\ c.cwd = c.atStart

\* C1, in every step: a call that enters the spawned state does so in a
\* directory that isLaravelProject accepts at that moment, and no step makes
\* any call spawn a second time.
RunCommandSpawnStep ==
  \A c \in BagToSet(calls') :
    (Gained(c) /\ c.tool \in RunCommandTools /\ c.pc = "rc_exec") =>
      /\ isLaravelProject(DirAt(fs, c.spawnDir))
      /\ \E b \in InFlight :
           /\ b.pc = "rc_validate" /\ b.spawns = 0
           /\ b.cwd = c.spawnDir /\ b.tool = c.tool

\* C1: runCommand spawns the external command at most once, only after
\* isLaravelProject returned true in the same call for the exact directory
\* the command is spawned in (the active project read at the start of the
\* call); an invalid directory fails with an error naming it and spawns
\* nothing, also when set_laravel_project changes the active project while
\* the call is suspended.
C1_SpawnOnlyAfterValidation ==
  []RunCommandSpawnsValidated /\ [][RunCommandSpawnStep]_vars

\* C1 witness: a run_dusk_test call has spawned its command in the directory
\* it validated while the active project is by now a different one.
C1_SpawnedAfterProjectChanged ==
  \E c \in InFlight :
    /\ c.tool = "run_dusk_test" /\ c.pc = "rc_exec" /\ c.spawns = 1
    /\ c.valid = "yes" /\ c.spawnDir = c.atStart /\ c.spawnDir # laravelPath

\* C2 as the claim states it: a set_laravel_project call without a path, or
\* with an empty path, ends with a textual error returned, not thrown.
C2_MissingPathReturnedAsText ==
  \A c \in InFlight :
    (c.tool = "set_laravel_project" /\ c.pc = "done" /\ ~TruthyPath(c.path)) =>
      c.resp.how = "returned" /\ c.resp.failed

\* C2 witness: a set_laravel_project call with an empty path has ended by
\* throwing "Project path is required".
C2_MissingPathThrown ==
  \E c \in InFlight :
    /\ c.tool = "set_laravel_project" /\ c.pc = "done"
    /\ c.path = Path(<<>>)
    /\ c.resp = Thrown("Project path is required", <<>>)

\* the command holds the visible-browser flag
HasHeaded == \E i \in 1..Len(command) : command[i] = " --headed"

\* C3 as the claim states it: the built command holds --headed exactly when
\* headless is given and false; with headless true or absent it holds none.
C3_HeadedOnlyWhenExplicitlyFalse ==
  command # <<>> => (HasHeaded <=> (bargs.headless.given /\ ~bargs.headless.v))

\* C3 witness: the command built from arguments without headless holds
\* --headed.
C3_HeadedWhenHeadlessAbsent ==
  command # <<>> /\ ~bargs.headless.given /\ HasHeaded

\* the generated text holds a FAILURES! line, text after it, and a blank line
HasFailuresBlock(g) ==
  g.marker /\ g.blank /\ (g.sum.kind # "none" \/ g.items # "none")

\* C4 as the claim states it: without a summary line the counters are 0 and
\* failures is empty, whatever else the text holds.
C4_NoSummaryEverythingEmpty ==
  (summary.done /\ gen.sum.kind = "none") =>
    /\ summary.value.total = 0 /\ summary.value.failed = 0
    /\ summary.value.passed = 0
    /\ summary.value.failures = <<>>

\* C4 amended: without a summary line total, failed and passed are 0;
\* failures is empty exactly when the text holds no FAILURES! block, and a
\* block with one numbered entry gives that entry's test and message.
C4_NoSummaryCountersZero ==
  (summary.done /\ gen.sum.kind = "none") =>
    /\ summary.value.total = 0 /\ summary.value.failed = 0
    /\ summary.value.passed = 0
    /\ (summary.value.failures = <<>>) <=> ~HasFailuresBlock(gen)
    /\ (HasFailuresBlock(gen) /\ gen.items = "one") =>
         summary.value.failures =
           <<[test |-> <<"t", "A">>, message |-> <<"m", "s", "g">>]>>

\* C4 witness: a text with a line that only starts like a summary and a
\* FAILURES! block has been parsed into zero counters and one failure.
C4_FailuresWithoutSummary ==
  /\ summary.done /\ gen.sum.kind = "none" /\ gen.pre = "nearFail"
  /\ gen.marker /\ gen.items = "one" /\ gen.blank
  /\ summary.value.total = 0 /\ Len(summary.value.failures) = 1

\* C5: a call of one of the eight tools with its required arguments present
\* ends, whatever fails inside its handler, with a response returned as text
\* and never with an error thrown; the server goes on serving.
C5_HandlerFailuresReturnedAsText ==
  /\ calls # EmptyBag => phase = "serving"
  /\ \A c \in InFlight :
       ( /\ c.tool \in Tools /\ c.pc = "done"
         /\ (c.tool = "set_laravel_project" => TruthyPath(c.path)) ) =>
         c.resp.how = "returned"

\* C5 witness: a run_dusk_test call whose command exited non-zero has been
\* answered with an error text while a request that came later is served.
C5_FailedCallAnsweredOthersServed ==
  \E c \in InFlight, d \in InFlight :
    /\ c.tool = "run_dusk_test" /\ c.pc = "done" /\ c.rcErr.kind = "Command failed"
    /\ c.resp.how = "returned" /\ c.resp.failed
    /\ d.pc # "done" /\ d.atStart = laravelPath /\ d.tool = "install_chrome_driver"

\* C6, in every step after initialization: the active project changes only
\* when a set_laravel_project call whose resolved path passed
\* isLaravelProject ends, and the new value is that resolved path.
ActiveProjectStep ==
  (phase = "serving" /\ laravelPath' # laravelPath) =>
    \E c \in InFlight :
      /\ c.tool = "set_laravel_project" /\ c.pc = "slp_access"
      /\ c.valid = "yes"
      /\ TruthyPath(c.path) /\ c.dir = PathResolve(c.path.v)
      /\ laravelPath' = c.dir
      /\ Gained(Done(c, TextResp("Laravel project set to", FALSE,
                                 <<c.dir, DirAt(fs, c.dir).dusk>>)))

\* C6: after startup the active project changes only in a set_laravel_project
\* call whose resolved absolute path passed isLaravelProject, to that path;
\* every other call, resource request and rejected set_laravel_project leaves
\* it alone.
C6_ActiveProjectOnlySetByValidatedCall == [][ActiveProjectStep]_vars

\* C6 witness: a set_laravel_project call given the relative path b has
\* ended and the active project is the resolved path /srv/b, while a call
\* that began under another active project is still in flight.
C6_ActiveProjectSetToResolvedPath ==
  \E c \in InFlight, d \in InFlight :
    /\ c.tool = "set_laravel_project" /\ c.pc = "done"
    /\ c.path = Path(<<"b">>) /\ c.resp.tag = "Laravel project set to"
    /\ laravelPath = ProjB /\ c.dir = ProjB
    /\ d.pc = "rc_validate" /\ d.atStart = ProjA

\* what C7 says isLaravelProject answers for a directory: composer.json
\* exists, artisan exists, composer.json parses as JSON, and laravel/framework
\* is a key of require or of require-dev
ClaimedLaravel(d) ==
  /\ d.composer # "missing"
  /\ d.artisan
  /\ d.composer \notin {"unreadable", "garbage"}
  /\ d.composer = "object"
  /\ \/ d.require \in {"laravel", "laravelNull"}
     \/ d.requireDev \in {"laravel", "laravelNull"}

\* C7: isLaravelProject never throws, and returns true exactly when
\* composer.json and artisan exist, composer.json parses, and
\* laravel/framework is a key under require or require-dev.
C7_IsLaravelProjectExact ==
  vres.done => (~vres.threw /\ (vres.value <=> ClaimedLaravel(vdir)))

\* C7 witness: isLaravelProject has returned true for a directory whose
\* composer.json names laravel/framework under require-dev only.
C7_AcceptedByRequireDev ==
  /\ vres.done /\ vres.value
  /\ vdir.require = "other" /\ vdir.requireDev = "laravel"

\* the names the two resource requests are recorded under
ResourceRequests == {"resources/list", "resources/read"}

\* C8, in every state: a call of a tool that is not in the catalog has ended
\* with "Unknown tool" thrown, and has spawned nothing.
UnknownToolThrown ==
  \A c \in InFlight :
    c.tool \notin (Tools \cup ResourceRequests) =>
      /\ c.pc = "done"
      /\ c.resp = Thrown("Unknown tool", <<c.tool>>)
      /\ c.spawns = 0

\* C8, in every step: the step that takes a call of an unknown tool leaves
\* the active project and the calls already in flight as they were.
UnknownToolStep ==
  \A c \in BagToSet(calls') :
    (Gained(c) /\ c.tool \notin (Tools \cup ResourceRequests)) =>
      /\ laravelPath' = laravelPath
      /\ calls' = calls (+) SetToBag({c})

\* C8: a tool name outside the catalog throws an unknown-tool error to the
\* protocol layer instead of returning text, leaves the active project
\* unchanged and spawns no process.
C8_UnknownToolThrows == []UnknownToolThrown /\ [][UnknownToolStep]_vars

\* C8 witness: a call of bogus_tool has ended by throwing while a
\* run_dusk_test call waits for its command.
C8_UnknownToolThrownBesideRun ==
  \E c \in InFlight, d \in InFlight :
    /\ c.tool = "bogus_tool" /\ c.resp.how = "thrown" /\ c.spawns = 0
    /\ d.tool = "run_dusk_test" /\ d.pc = "rc_exec"

\* a part of the command that applies, as the one-element sequence of it
PartIf(applies, part) == IF applies THEN <<part>> ELSE <<>>

\* C9: the run_dusk_test command is the base invocation followed by the
\* parts that apply, in this order: the test value verbatim, --filter with
\* its value in quotes, --group with its value, --headed; a string argument
\* applies when it is given and not empty, and --headed is there whenever
\* headless is given as false.
C9_CommandPartsInFixedOrder ==
  command # <<>> =>
    \E headed \in BOOLEAN :
      /\ (bargs.headless.given /\ ~bargs.headless.v) => headed
      /\ command =
           <<"php artisan dusk">>
             \o PartIf(bargs.test.given /\ bargs.test.v # "", " " \o bargs.test.v)
             \o PartIf(bargs.filter.given /\ bargs.filter.v # "",
                       " --filter=\"" \o bargs.filter.v \o "\"")
             \o PartIf(bargs.group.given /\ bargs.group.v # "",
                       " --group=" \o bargs.group.v)
             \o PartIf(headed, " --headed")

\* C9 witness: a command with all four parts has been built.
C9_AllFourParts ==
  /\ Len(command) = 5 /\ bargs.headless = Bool(FALSE)
  /\ command[2] = " tests/Browser/LoginTest.php"
  /\ command[3] = " --filter=\"Login\""

\* C10: every summary has passed = total - failed and skipped = 0; with a
\* summary line, total is the count printed after Tests: and failed the count
\* printed in the Failures clause that follows the Assertions clause, 0 when
\* no such clause follows it.
C10_PassedIsTotalMinusFailed ==
  summary.done =>
    /\ summary.value.passed = summary.value.total - summary.value.failed
    /\ summary.value.skipped = 0
    /\ gen.sum.kind # "none" =>
         /\ summary.value.total = gen.sum.total
         /\ summary.value.failed =
              (IF gen.sum.kind \in {"failures", "wide"} THEN gen.sum.failed ELSE 0)

\* C10 witness: a summary line with a two-digit Tests count and a Failures
\* clause has been parsed.
C10_ParsedFailuresClause ==
  /\ summary.done /\ gen.sum.kind = "failures"
  /\ gen.sum.total = 10 /\ gen.sum.failed = 2
  /\ summary.value.total = 10 /\ summary.value.failed = 2
  /\ summary.value.passed = 8

\* the step removes a copy of the call record c
Left(c) == CopiesIn(c, calls') < CopiesIn(c, calls)

\* the schemes a resource is read under
ReadSchemes == {"screenshot://", "log://"}

\* C11, in every state: a finished resource read either returned exactly one
\* content item, for a screenshot:// or log:// URI, base64 from the
\* screenshots directory or text from the logs directory of the project the
\* request was taken under, or threw; it threw "Unknown resource type"
\* exactly for the other schemes; no result is empty or partial.
ReadAnswered ==
  \A c \in InFlight :
    (c.tool = "resources/read" /\ c.pc = "done") =>
      IF c.resp.how = "returned"
        THEN /\ c.resp.tag = "contents" /\ Len(c.resp.info) = 1
             /\ LET item == c.resp.info[1] IN
                  /\ item.uri[1] \in ReadSchemes
                  /\ item.from = c.dir
                  /\ item.uri[1] = "screenshot://" =>
                       /\ item.encoding = "base64"
                       /\ item.under = "tests/Browser/screenshots"
                  /\ item.uri[1] = "log://" =>
                       /\ item.encoding = "utf-8"
                       /\ item.under = "storage/logs/dusk"
        ELSE /\ c.resp.how = "thrown" /\ Len(c.resp.info) = 1
             /\ IF c.resp.info[1][1] \in ReadSchemes
                  THEN c.resp.tag = "readFile rejected"
                  ELSE c.resp.tag = "Unknown resource type"

\* C11, in every step: a read is taken under the active project of that
\* moment; when its readFile settles, the file named by the URI being in
\* the directory of its scheme gives the content item for that URI, and
\* the file not being there gives the read error.
ReadStep ==
  /\ \A c \in BagToSet(calls') :
       (Gained(c) /\ c.tool = "resources/read" /\ c.pc = "rr_read") =>
         c.dir = laravelPath /\ c.files[1][1] \in ReadSchemes
  /\ \A c \in InFlight :
       (c.tool = "resources/read" /\ c.pc = "rr_read" /\ Left(c)) =>
         LET uri == c.files[1]
             d == DirAt(fs, c.dir)
             listing == IF uri[1] = "screenshot://" THEN d.shots ELSE d.logs
             there == listing.ok /\ \E i \in 1..Len(listing.entries) :
                                      listing.entries[i] = uri[2]
         IN  \E a \in BagToSet(calls') :
               /\ Gained(a) /\ a.pc = "done" /\ a.tool = "resources/read"
               /\ a.dir = c.dir
               /\ there => (a.resp.how = "returned" /\ a.resp.info[1].uri = uri)
               /\ ~there => a.resp = Thrown("readFile rejected", <<uri>>)

\* C11: a resource read dispatches on the URI scheme: screenshot://name is
\* the file under the active project's screenshots directory as base64,
\* log://name the file under its logs directory as text; another scheme
\* fails with the unknown-resource error and a missing file with a read
\* error, never with an empty or partial content result.
C11_ReadDispatchesOnScheme == []ReadAnswered /\ [][ReadStep]_vars

\* C11 witness: a screenshot:// read of a file that exists only in the logs
\* directory has ended with the read error.
C11_MissingScreenshotRejected ==
  \E c \in InFlight :
    /\ c.tool = "resources/read" /\ c.pc = "done"
    /\ c.resp = Thrown("readFile rejected", << <<"screenshot://", LogFile>> >>)
    /\ Has(DirAt(fs, c.dir).logs, LogFile)
    /\ ~Has(DirAt(fs, c.dir).shots, LogFile)

\* the entries there are to examine, each as <<rank, path, d>>: the root
\* is roots[i] and can be listed, the entry is the j-th of its listing, rank
\* is its place in the order of examination, d what stat and the files of
\* the path show
EntriesToExamine(roots) ==
  { <<x[1] * 10 + x[2],
      roots[x[1]] \o <<ls[roots[x[1]]].entries[x[2]]>>,
      DirAt(fs, roots[x[1]] \o <<ls[roots[x[1]]].entries[x[2]]>>)>> :
    x \in { y \in (1..Len(roots)) \X (1..2) :
              /\ roots[y[1]] \in DOMAIN ls
              /\ ls[roots[y[1]]].ok
              /\ y[2] <= Len(ls[roots[y[1]]].entries) } }

\* those of them that are valid projects: stat gives a directory and the
\* directory is what C7 says isLaravelProject accepts
ProjectEntries(roots) ==
  {e \in EntriesToExamine(roots) : e[3].isDir /\ ClaimedLaravel(e[3])}

\* result is what C12 says of one call: only valid projects, every valid
\* project, and each before the ones whose first occurrence is later
DiscoveryAsClaimed(result) ==
  LET projects == ProjectEntries(SearchPathsFrom(wd))
      first == [k \in 1..Len(result) |->
                  LET ranks == {e[1] : e \in {x \in projects : x[2] = result[k]}}
                  IN  IF ranks = {} THEN 0
                      ELSE CHOOSE r \in ranks : \A q \in ranks : r <= q]
  IN  /\ \A k \in 1..Len(result) : first[k] > 0
      /\ \A e \in projects : \E k \in 1..Len(result) : result[k] = e[2]
      /\ \A k \in 1..(Len(result) - 1) : first[k] < first[k + 1]

\* C12: findLaravelProjects goes through the roots in list order and each
\* listable root's entries in listing order; an unlistable root and an entry
\* that cannot be stat-ed or is no valid project contribute nothing and stop
\* nothing; the result holds every valid project once, at the place of its
\* first occurrence; a second call on the unchanged file system returns the
\* same sequence.
C12_DiscoveryOrderedDedupedStable ==
  /\ \A n \in 1..Len(found) : DiscoveryAsClaimed(found[n])
  /\ Len(found) = 2 => found[1] = found[2]

\* C12 witness: two calls from a working directory that is also the third
\* root have both returned /home/u/projects/b, then /var/www/a, after an
\* entry that cannot be stat-ed and with the unlistable roots skipped.
C12_DuplicateRootFoundOnce ==
  /\ Len(found) = 2 /\ wd = ProjectsRoot
  /\ found[2] = <<ProjectsRoot \o <<"b">>, WwwRoot \o <<"a">> >>
  /\ ls[ProjectsRoot] = Listing(<<"a", "b">>)
  /\ fs[ProjectsRoot \o <<"a">>] = NoDir
  /\ ls[WwwRoot] = Listing(<<"b", "a">>)

\* C13 as the claim states it: the entries of one finished resource
\* listing, screenshot:// and log:// alike, were all enumerated under the
\* same active project.
C13_ListingDescribesOneProject ==
  \A c \in InFlight :
    (c.tool = "resources/list" /\ c.pc = "done") =>
      \A i \in 1..Len(c.resp.info), j \in 1..Len(c.resp.info) :
        c.resp.info[i].from = c.resp.info[j].from

\* C13 witness: a finished listing holds a screenshot:// entry enumerated
\* under /srv/a and a log:// entry enumerated under /srv/b.
C13_ListingMixesTwoProjects ==
  \E c \in InFlight :
    /\ c.tool = "resources/list" /\ c.pc = "done"
    /\ Len(c.resp.info) = 2
    /\ c.resp.info[1].uri[1] = "screenshot://" /\ c.resp.info[1].from = ProjA
    /\ c.resp.info[2].uri[1] = "log://" /\ c.resp.info[2].from = ProjB
    /\ laravelPath = ProjB

====
